---- MODULE Spec2Model ----
(***************************************************************************)
(* A model of cribbage_hand_scorer.py: the validation, enumeration,        *)
(* scoring and sorting done by score(), and the five rule evaluators that  *)
(* score_min_card_combo() sums for one 4-card combination.                 *)
(*                                                                         *)
(* A card is the tuple <<number, suit>>; a hand is a sequence of cards.    *)
(* Python's None is the empty tuple.                                       *)
(***************************************************************************)
EXTENDS Integers, Sequences, FiniteSets, TLC

VARIABLES
  the_cards,                    \* score(): the hand passed by the caller
  the_top_of_deck_card,         \* score(): the top-of-deck card, or None
  pc,                           \* the statement of score() to run next
  error,                        \* the exception raised, "" while there is none
  min_card_combos,              \* score(): the combinations still to be scored
  the_hand,                     \* the combination passed to score_min_card_combo
  combo_score,                  \* what score_min_card_combo returned for it
  rule_scores,                  \* what each rule added to combo_score
  min_card_combos_plus_scores,  \* score(): the list of (score, hand) built so far
  result                        \* what score() returned, NoResult before that

vars == <<the_cards, the_top_of_deck_card, pc, error, min_card_combos, the_hand,
          combo_score, rule_scores, min_card_combos_plus_scores, result>>

None == << >>
NoResult == << >>

\* The longest hand the model passes to score()
MaxHandSize == 5

\* ------------------------------------------------------------------------
\* Module constants (cribbage_hand_scorer.py:14-28)
\* ------------------------------------------------------------------------
CARD_NUMBER_SMALLEST == 1
CARD_NUMBER_LARGEST == 13
CARD_NUMBERS == CARD_NUMBER_SMALLEST..CARD_NUMBER_LARGEST
SUITS == {"s", "h", "d", "c"}
ALL_CARDS == {<<n, s>> : n \in CARD_NUMBERS, s \in SUITS}

SINGLE_CARD_SCORE == 1
HIS_NIBS_SCORE == SINGLE_CARD_SCORE * 1
PAIR_SCORE == SINGLE_CARD_SCORE * 2
SPECIAL_TOTAL_SCORE == SINGLE_CARD_SCORE * 2
SPECIAL_TOTAL == 15
MIN_HAND_SIZE == 4
MIN_SEQUENCE_SIZE == 3
MIN_FLUSH_SIZE == 4
MAX_CARD_NUMBER == 10
JACK == 11

\* ------------------------------------------------------------------------
\* Python built-ins used by the scorer
\* ------------------------------------------------------------------------

\* set(seq)
ToSet(seq) == {seq[i] : i \in 1..Len(seq)}

\* sum(seq) of a sequence of integers
RECURSIVE SumSeq(_)
SumSeq(seq) == IF seq = << >> THEN 0 ELSE Head(seq) + SumSeq(Tail(seq))

\* max(seq) of a non-empty sequence of integers
MaxSeq(seq) == CHOOSE m \in ToSet(seq) : \A x \in ToSet(seq) : x <= m

\* chain.from_iterable(seqs)
RECURSIVE Flatten(_)
Flatten(seqs) == IF seqs = << >> THEN << >> ELSE Head(seqs) \o Flatten(Tail(seqs))

\* The longest sequence the model takes combinations of: a hand, or a
\* combination with the top-of-deck card
MaxCombinationsLen == MaxHandSize + 1

\* The positions itertools.combinations(range(1, n + 1), r) yields: the
\* r-length ascending position tuples, in lexicographic order
RECURSIVE PositionCombinations(_, _)
PositionCombinations(positions, r) ==
  IF r = 0 THEN << << >> >>
  ELSE IF Len(positions) < r THEN << >>
  ELSE LET with == PositionCombinations(Tail(positions), r - 1)
           without == PositionCombinations(Tail(positions), r)
       IN  [i \in 1..Len(with) |-> <<Head(positions)>> \o with[i]] \o without

PositionTable ==
  [n \in 0..MaxCombinationsLen, r \in 0..MaxCombinationsLen |->
     PositionCombinations([i \in 1..n |-> i], r)]

\* itertools.combinations(seq, r): the r-length subsequences of seq, in
\* lexicographic order of the positions they take
combinations(seq, r) ==
  LET positions == PositionTable[Len(seq), r]
  IN  [k \in 1..Len(positions) |-> [j \in 1..r |-> seq[positions[k][j]]]]

\* Python's order on str for the one-letter suits ('a' < 'c' < 'd' < 'h' < 's')
SuitOrd(s) == CASE s = "a" -> 1 [] s = "c" -> 3 [] s = "d" -> 4
                [] s = "h" -> 8 [] s = "s" -> 19

\* card1 < card2 for (int, str) tuples
CardLess(c1, c2) ==
  \/ c1[1] < c2[1]
  \/ c1[1] = c2[1] /\ SuitOrd(c1[2]) < SuitOrd(c2[2])

\* hand1 < hand2 for tuples of cards: the first differing card decides, a
\* proper prefix is smaller
RECURSIVE HandLess(_, _)
HandLess(h1, h2) ==
  IF h2 = << >> THEN FALSE
  ELSE IF h1 = << >> THEN TRUE
  ELSE IF Head(h1) = Head(h2) THEN HandLess(Tail(h1), Tail(h2))
  ELSE CardLess(Head(h1), Head(h2))

EntryLess_ScoreOnly(e1, e2) == e1[1] < e2[1]

\* (score1, hand1) < (score2, hand2)
EntryLess(e1, e2) ==
  \/ e1[1] < e2[1]
  \/ e1[1] = e2[1] /\ HandLess(e1[2], e2[2])

\* list.sort() on (score, hand) tuples: a stable ascending sort
RECURSIVE InsertSorted(_, _)
InsertSorted(e, sorted) ==
  IF sorted = << >> THEN <<e>>
  ELSE IF EntryLess(e, Head(sorted)) THEN <<e>> \o sorted
  ELSE <<Head(sorted)>> \o InsertSorted(e, Tail(sorted))

ListSort_Unsorted(seq) == seq

RECURSIVE ListSort(_)
ListSort(seq) ==
  IF seq = << >> THEN << >>
  ELSE InsertSorted(seq[Len(seq)], ListSort(SubSeq(seq, 1, Len(seq) - 1)))

\* sorted(seq) for a sequence of integers
RECURSIVE InsertInt(_, _)
InsertInt(x, sorted) ==
  IF sorted = << >> THEN <<x>>
  ELSE IF x < Head(sorted) THEN <<x>> \o sorted
  ELSE <<Head(sorted)>> \o InsertInt(x, Tail(sorted))

RECURSIVE SortInts(_)
SortInts(seq) ==
  IF seq = << >> THEN << >>
  ELSE InsertInt(seq[Len(seq)], SortInts(SubSeq(seq, 1, Len(seq) - 1)))

\* ------------------------------------------------------------------------
\* The rule evaluators.  Each takes the tuple of cards that
\* score_min_card_combo passes: the combination, with the top-of-deck card
\* appended as last element when one was supplied.
\* ------------------------------------------------------------------------

\* cards[-1] and cards[:-1]
LastCard(cards) == cards[Len(cards)]
ButLast(cards) == SubSeq(cards, 1, Len(cards) - 1)

score_his_nibs_AnyCard(cards) ==
  LET top_of_deck_card == LastCard(cards)
      his_nibs_count ==
        Cardinality({i \in 1..Len(cards) :
                       /\ cards[i][1] = JACK
                       /\ cards[i][2] = top_of_deck_card[2]})
  IN  his_nibs_count * HIS_NIBS_SCORE

score_his_nibs(cards) ==
  LET top_of_deck_card == LastCard(cards)
      other_cards == ButLast(cards)
      his_nibs_count ==
        Cardinality({i \in 1..Len(other_cards) :
                       /\ other_cards[i][1] = JACK
                       /\ other_cards[i][2] = top_of_deck_card[2]})
  IN  his_nibs_count * HIS_NIBS_SCORE

score_flush_TopCounts(cards) ==
  LET suits == {cards[i][2] : i \in 1..Len(cards)}
  IN  IF Len(cards) < MIN_FLUSH_SIZE THEN 0
      ELSE IF Cardinality(suits) = 1 THEN Len(cards) * SINGLE_CARD_SCORE
      ELSE 0

score_flush(cards) ==
  LET top_of_deck_card == LastCard(cards)
      other_cards == ButLast(cards)
      suits == {other_cards[i][2] : i \in 1..Len(other_cards)}
  IN  IF Len(other_cards) < MIN_FLUSH_SIZE THEN 0
      ELSE IF Cardinality(suits) = 1
           THEN Len(other_cards) * SINGLE_CARD_SCORE
                + (IF suits = {top_of_deck_card[2]} THEN SINGLE_CARD_SCORE ELSE 0)
           ELSE 0

score_sequence_InOrder(cards) ==
  IF Len(cards) < MIN_SEQUENCE_SIZE THEN 0
  ELSE LET card_numbers == [i \in 1..Len(cards) |-> cards[i][1]]
           card_number_differences ==
             {card_numbers[i + 1] - card_numbers[i] : i \in 1..(Len(card_numbers) - 1)}
       IN  IF card_number_differences = {1}
           THEN Len(cards) * SINGLE_CARD_SCORE
           ELSE 0

score_sequence_RepeatsIgnored(cards) ==
  IF Len(cards) < MIN_SEQUENCE_SIZE THEN 0
  ELSE LET card_numbers == SortInts([i \in 1..Len(cards) |-> cards[i][1]])
           card_number_differences ==
             {card_numbers[i + 1] - card_numbers[i] : i \in 1..(Len(card_numbers) - 1)}
       IN  IF card_number_differences \ {0} = {1}
           THEN Len(cards) * SINGLE_CARD_SCORE
           ELSE 0

score_sequence(cards) ==
  IF Len(cards) < MIN_SEQUENCE_SIZE THEN 0
  ELSE LET card_numbers == SortInts([i \in 1..Len(cards) |-> cards[i][1]])
           card_number_differences ==
             {card_numbers[i + 1] - card_numbers[i] : i \in 1..(Len(card_numbers) - 1)}
       IN  IF card_number_differences = {1}
           THEN Len(cards) * SINGLE_CARD_SCORE
           ELSE 0

score_sequences_SumAll(cards) ==
  LET card_sublists ==
        Flatten([k \in 1..(Len(cards) + 1 - MIN_SEQUENCE_SIZE) |->
                   combinations(cards, MIN_SEQUENCE_SIZE + k - 1)])
  IN  SumSeq([i \in 1..Len(card_sublists) |-> score_sequence(card_sublists[i])])

score_sequences_WholeOnly(cards) == score_sequence(cards)

score_sequences(cards) ==
  LET card_sublists ==
        Flatten([k \in 1..(Len(cards) + 1 - MIN_SEQUENCE_SIZE) |->
                   combinations(cards, MIN_SEQUENCE_SIZE + k - 1)])
      card_sublist_scores ==
        [i \in 1..Len(card_sublists) |-> score_sequence(card_sublists[i])]
      max_sublist_score == MaxSeq(card_sublist_scores)
      count_max_scores ==
        Cardinality({i \in 1..Len(card_sublist_scores) :
                       card_sublist_scores[i] = max_sublist_score})
  IN  max_sublist_score * count_max_scores

score_pairs_Adjacent(cards) ==
  Cardinality({i \in 1..(Len(cards) - 1) : cards[i][1] = cards[i + 1][1]})
    * PAIR_SCORE

score_pairs(cards) ==
  LET card_pairs == combinations(cards, 2)
      count_pairs ==
        Cardinality({i \in 1..Len(card_pairs) :
                       card_pairs[i][1][1] = card_pairs[i][2][1]})
  IN  count_pairs * PAIR_SCORE

CardTotalValue_Uncapped(card) == card[1]

\* The value one card adds to a total: MAX_CARD_NUMBER at most
CardTotalValue(card) ==
  IF card[1] >= MAX_CARD_NUMBER THEN MAX_CARD_NUMBER ELSE card[1]

SublistTotal(card_sublist) ==
  SumSeq([i \in 1..Len(card_sublist) |-> CardTotalValue(card_sublist[i])])

score_special_totals(cards) ==
  LET card_sublists ==
        Flatten([k \in 1..Len(cards) |-> combinations(cards, k)])
      card_total_sublists ==
        [i \in 1..Len(card_sublists) |-> SublistTotal(card_sublists[i])]
      special_total_sublists ==
        {i \in 1..Len(card_total_sublists) : card_total_sublists[i] = SPECIAL_TOTAL}
  IN  Cardinality(special_total_sublists) * SPECIAL_TOTAL_SCORE

\* cards += (top_of_deck_card,) when a top-of-deck card was given
WithTopOfDeck(cards, top_of_deck_card) ==
  IF top_of_deck_card # None THEN Append(cards, top_of_deck_card) ELSE cards

HisNibsPart_Always(cards, top_of_deck_card) ==
  score_his_nibs(WithTopOfDeck(cards, top_of_deck_card))

\* What score_min_card_combo adds for his nibs: scored only with a
\* top-of-deck card
HisNibsPart(cards, top_of_deck_card) ==
  IF top_of_deck_card # None
  THEN score_his_nibs(WithTopOfDeck(cards, top_of_deck_card))
  ELSE 0

\* What each rule adds to combo_score in score_min_card_combo
RuleScores(cards, top_of_deck_card) ==
  LET all_cards == WithTopOfDeck(cards, top_of_deck_card)
  IN  [his_nibs |-> HisNibsPart(cards, top_of_deck_card),
       flush |-> score_flush(all_cards),
       sequences |-> score_sequences(all_cards),
       pairs |-> score_pairs(all_cards),
       special_totals |-> score_special_totals(all_cards)]

\* combo_score = 0, then combo_score += the score of each rule
ComboScore(scores) ==
  0 + scores.his_nibs + scores.flush + scores.sequences + scores.pairs
    + scores.special_totals

score_min_card_combo(cards, top_of_deck_card) ==
  ComboScore(RuleScores(cards, top_of_deck_card))

NoRuleScores ==
  [his_nibs |-> 0, flush |-> 0, sequences |-> 0, pairs |-> 0, special_totals |-> 0]

\* ------------------------------------------------------------------------
\* score(cards, top_of_deck_card), statement by statement
\* ------------------------------------------------------------------------

\* The cards the model's callers draw hands from: six cards of the deck and
\* one card that is not in it
ScoreDeck == {<<4, "s">>, <<5, "s">>, <<6, "s">>, <<11, "s">>, <<5, "h">>, <<11, "h">>}
UnknownCards == {<<14, "s">>}

\* The cards that hands hold more than once
RepeatedCards == {<<4, "s">>, <<5, "s">>, <<6, "s">>, <<5, "h">>}

\* Every sequence over S of length 0..n
RECURSIVE SeqsUpTo(_, _)
SeqsUpTo(S, n) ==
  IF n = 0 THEN {<< >>}
  ELSE LET shorter == SeqsUpTo(S, n - 1)
       IN  shorter \cup {Append(q, c) : q \in {x \in shorter : Len(x) = n - 1}, c \in S}

\* Every sequence over S of length 0..n that holds no card twice
RECURSIVE DistinctSeqsUpTo(_, _)
DistinctSeqsUpTo(S, n) ==
  IF n = 0 THEN {<< >>}
  ELSE LET shorter == DistinctSeqsUpTo(S, n - 1)
       IN  shorter \cup
             UNION {{Append(q, c) : c \in S \ ToSet(q)}
                      : q \in {x \in shorter : Len(x) = n - 1}}

\* The hands passed to score(): every hand of up to MaxHandSize cards without
\* a repeated card, and every hand of up to MaxHandSize cards, repeated or
\* not, over four cards of the deck and the unknown card
Hands ==
  DistinctSeqsUpTo(ScoreDeck \cup UnknownCards, MaxHandSize)
    \cup SeqsUpTo(RepeatedCards \cup UnknownCards, MaxHandSize)

Init ==
  /\ the_cards \in Hands
  /\ the_top_of_deck_card \in ScoreDeck \cup UnknownCards \cup {None}
  /\ pc = "check_cards"
  /\ error = ""
  /\ min_card_combos = << >>
  /\ the_hand = << >>
  /\ combo_score = 0
  /\ rule_scores = NoRuleScores
  /\ min_card_combos_plus_scores = << >>
  /\ result = NoResult

Raise(message) ==
  /\ pc' = "raised"
  /\ error' = message
  /\ UNCHANGED <<the_cards, the_top_of_deck_card, min_card_combos, the_hand, combo_score,
                 rule_scores, min_card_combos_plus_scores, result>>

Goto(label) ==
  /\ pc' = label
  /\ UNCHANGED <<the_cards, the_top_of_deck_card, error, min_card_combos, the_hand, combo_score,
                 rule_scores, min_card_combos_plus_scores, result>>

CheckCards_SizeFirst ==
  /\ pc = "check_cards"
  /\ IF Len(the_cards) < MIN_HAND_SIZE
     THEN Raise("Invalid hand provided: Contains not enough cards")
     ELSE IF ~(ToSet(the_cards) \subseteq ALL_CARDS)
     THEN Raise("Invalid hand provided: Contains cards that are invalid")
     ELSE Goto("check_size")

\* if not set(cards).issubset(_ALL_CARDS): raise
CheckCards ==
  /\ pc = "check_cards"
  /\ IF ~(ToSet(the_cards) \subseteq ALL_CARDS)
     THEN Raise("Invalid hand provided: Contains cards that are invalid")
     ELSE Goto("check_size")

CheckSize_AtMost ==
  /\ pc = "check_size"
  /\ IF Len(the_cards) <= MIN_HAND_SIZE
     THEN Raise("Invalid hand provided: Contains not enough cards")
     ELSE Goto("check_duplicates")

\* if len(cards) < MIN_HAND_SIZE: raise
CheckSize ==
  /\ pc = "check_size"
  /\ IF Len(the_cards) < MIN_HAND_SIZE
     THEN Raise("Invalid hand provided: Contains not enough cards")
     ELSE Goto("check_duplicates")

\* if len(cards) != len(set(cards)): raise
CheckDuplicates ==
  /\ pc = "check_duplicates"
  /\ IF Len(the_cards) # Cardinality(ToSet(the_cards))
     THEN Raise("Invalid hand provided: Contains duplicate cards")
     ELSE Goto("check_top_card")

\* if top_of_deck_card is not None:
\*   if not set([top_of_deck_card]).issubset(_ALL_CARDS): raise
CheckTopCard ==
  /\ pc = "check_top_card"
  /\ IF the_top_of_deck_card = None THEN Goto("combinations")
     ELSE IF ~({the_top_of_deck_card} \subseteq ALL_CARDS)
     THEN Raise("Invalid top-of-deck card provided: Card is invalid")
     ELSE Goto("check_top_duplicated")

CheckTopDuplicated_Late ==
  /\ pc = "check_top_duplicated"
  /\ Goto("combinations")

\*   if set([top_of_deck_card]).issubset(cards): raise
CheckTopDuplicated ==
  /\ pc = "check_top_duplicated"
  /\ IF {the_top_of_deck_card} \subseteq ToSet(the_cards)
     THEN Raise("Invalid top-of-deck card provided: Card is duplicated")
     ELSE Goto("combinations")

FindCombos_WithTop ==
  /\ pc = "combinations"
  /\ min_card_combos' =
       combinations(WithTopOfDeck(the_cards, the_top_of_deck_card), MIN_HAND_SIZE)
  /\ pc' = "score_combos"
  /\ UNCHANGED <<the_cards, the_top_of_deck_card, error, the_hand, combo_score,
                 rule_scores, min_card_combos_plus_scores, result>>

\* min_card_combos = list(combinations(cards, MIN_HAND_SIZE))
FindCombos ==
  /\ pc = "combinations"
  /\ min_card_combos' = combinations(the_cards, MIN_HAND_SIZE)
  /\ pc' = "score_combos"
  /\ UNCHANGED <<the_cards, the_top_of_deck_card, error, the_hand, combo_score,
                 rule_scores, min_card_combos_plus_scores, result>>

\* One turn of the list comprehension:
\* (score_min_card_combo(hand, top_of_deck_card), hand) for hand in min_card_combos
ScoreCombo ==
  /\ pc = "score_combos"
  /\ min_card_combos # << >>
  /\ the_hand' = Head(min_card_combos)
  /\ combo_score' = score_min_card_combo(the_hand', the_top_of_deck_card)
  /\ rule_scores' = RuleScores(the_hand', the_top_of_deck_card)
  /\ min_card_combos_plus_scores' =
       Append(min_card_combos_plus_scores, <<combo_score', the_hand'>>)
  /\ min_card_combos' = Tail(min_card_combos)
  /\ UNCHANGED <<the_cards, the_top_of_deck_card, pc, error, result>>

\* min_card_combos_plus_scores.sort(), once every combination is scored
SortScores ==
  /\ pc = "score_combos"
  /\ min_card_combos = << >>
  /\ min_card_combos_plus_scores' = ListSort(min_card_combos_plus_scores)
  /\ pc' = "return"
  /\ UNCHANGED <<the_cards, the_top_of_deck_card, error, min_card_combos, the_hand,
                 combo_score, rule_scores, result>>

\* return (min_card_combos_plus_scores, top_of_deck_card)
Return ==
  /\ pc = "return"
  /\ result' = <<min_card_combos_plus_scores, the_top_of_deck_card>>
  /\ pc' = "done"
  /\ UNCHANGED <<the_cards, the_top_of_deck_card, error, min_card_combos, the_hand, combo_score,
                 rule_scores, min_card_combos_plus_scores>>

Next ==
  \/ CheckCards
  \/ CheckSize
  \/ CheckDuplicates
  \/ CheckTopCard
  \/ CheckTopDuplicated
  \/ FindCombos
  \/ ScoreCombo
  \/ SortScores
  \/ Return

Spec == Init /\ [][Next]_vars

\* ------------------------------------------------------------------------
\* score_min_card_combo(hand, top_of_deck_card) on its own: one call for
\* every 4-card combination of a larger part of the deck, with every
\* top-of-deck card that is not in the combination, and with none
\* ------------------------------------------------------------------------

\* Twenty cards: every 5, three Jacks, two 10s and two Queens, seven clubs,
\* and at least one card of every rank
ComboDeck ==
  {<<5, "s">>, <<5, "h">>, <<5, "d">>, <<5, "c">>,
   <<10, "c">>, <<10, "h">>,
   <<11, "c">>, <<11, "h">>, <<11, "d">>,
   <<12, "c">>, <<12, "d">>,
   <<13, "c">>, <<9, "c">>, <<4, "c">>,
   <<1, "s">>, <<2, "h">>, <<3, "d">>, <<6, "s">>, <<7, "h">>, <<8, "d">>}

\* The n-card hands over S, each combination once: cards in ascending order
RECURSIVE AscendingHands(_, _)
AscendingHands(S, n) ==
  IF n = 0 THEN {<< >>}
  ELSE UNION {{Append(q, c) : c \in {x \in S : \A i \in 1..(n - 1) : CardLess(q[i], x)}}
                : q \in AscendingHands(S, n - 1)}

InitCombo ==
  /\ the_hand \in AscendingHands(ComboDeck, MIN_HAND_SIZE)
  /\ the_top_of_deck_card \in (ComboDeck \ ToSet(the_hand)) \cup {None}
  /\ the_cards = the_hand
  /\ pc = "combo"
  /\ error = ""
  /\ min_card_combos = << >>
  /\ combo_score = 0
  /\ rule_scores = NoRuleScores
  /\ min_card_combos_plus_scores = << >>
  /\ result = NoResult

\* The whole of score_min_card_combo(the_hand, the_top_of_deck_card)
ScoreMinCardCombo ==
  /\ pc = "combo"
  /\ rule_scores' = RuleScores(the_hand, the_top_of_deck_card)
  /\ combo_score' = ComboScore(rule_scores')
  /\ pc' = "combo_done"
  /\ UNCHANGED <<the_cards, the_top_of_deck_card, error, min_card_combos, the_hand,
                 min_card_combos_plus_scores, result>>

NextCombo == ScoreMinCardCombo

SpecCombo == InitCombo /\ [][NextCombo]_vars

\* ------------------------------------------------------------------------
\* score_sequence(cards) on its own: one call for every tuple of up to
\* MaxSequenceLen cards, in every order, a card or a rank repeated or not
\* ------------------------------------------------------------------------

MaxSequenceLen == 5

\* Seven cards: ranks 1..5 in a row, rank 3 in two suits, and a gap before 7
SequenceDeck ==
  {<<1, "s">>, <<2, "h">>, <<3, "d">>, <<3, "c">>, <<4, "c">>, <<5, "s">>,
   <<7, "h">>}

InitSequence ==
  /\ the_cards \in SeqsUpTo(SequenceDeck, MaxSequenceLen)
  /\ the_top_of_deck_card = None
  /\ pc = "sequence"
  /\ error = ""
  /\ min_card_combos = << >>
  /\ the_hand = << >>
  /\ combo_score = 0
  /\ rule_scores = NoRuleScores
  /\ min_card_combos_plus_scores = << >>
  /\ result = NoResult

\* The whole of score_sequence(the_cards); the sequence_score it returns is
\* kept in rule_scores.sequences
ScoreSequence ==
  /\ pc = "sequence"
  /\ rule_scores' = [rule_scores EXCEPT !.sequences = score_sequence(the_cards)]
  /\ pc' = "sequence_done"
  /\ UNCHANGED <<the_cards, the_top_of_deck_card, error, min_card_combos, the_hand,
                 combo_score, min_card_combos_plus_scores, result>>

NextSequence == ScoreSequence

SpecSequence == InitSequence /\ [][NextSequence]_vars

\* ========================================================================
\* Properties of score(), checked under Spec
\* ========================================================================

InUniverse(card) ==
  /\ Len(card) = 2
  /\ card[1] \in 1..13
  /\ card[2] \in {"s", "h", "d", "c"}

HandHasUnknownCard == \E i \in 1..Len(the_cards) : ~InUniverse(the_cards[i])
HandTooSmall == Len(the_cards) < 4
HandHasDuplicate ==
  \E i, j \in 1..Len(the_cards) : i < j /\ the_cards[i] = the_cards[j]
TopUnknown == the_top_of_deck_card # None /\ ~InUniverse(the_top_of_deck_card)
TopInHand ==
  /\ the_top_of_deck_card # None
  /\ \E i \in 1..Len(the_cards) : the_cards[i] = the_top_of_deck_card

\* The conditions the input violates
Violations ==
  {v \in {"hand_unknown", "hand_too_small", "hand_duplicate", "top_unknown",
          "top_in_hand"} :
     \/ v = "hand_unknown" /\ HandHasUnknownCard
     \/ v = "hand_too_small" /\ HandTooSmall
     \/ v = "hand_duplicate" /\ HandHasDuplicate
     \/ v = "top_unknown" /\ TopUnknown
     \/ v = "top_in_hand" /\ TopInHand}

\* The condition an exception's message names
NamedBy(message) ==
  CASE message = "Invalid hand provided: Contains cards that are invalid"
         -> "hand_unknown"
    [] message = "Invalid hand provided: Contains not enough cards"
         -> "hand_too_small"
    [] message = "Invalid hand provided: Contains duplicate cards"
         -> "hand_duplicate"
    [] message = "Invalid top-of-deck card provided: Card is invalid"
         -> "top_unknown"
    [] message = "Invalid top-of-deck card provided: Card is duplicated"
         -> "top_in_hand"
    [] OTHER -> "nothing"

\* The reason of the error taxonomy: unknown card, too few cards, duplicate card
ReasonOf(condition) ==
  CASE condition \in {"hand_unknown", "top_unknown"} -> "unknown card"
    [] condition = "hand_too_small" -> "too few cards"
    [] condition \in {"hand_duplicate", "top_in_hand"} -> "duplicate card"
    [] OTHER -> "none"

Validating ==
  pc \in {"check_cards", "check_size", "check_duplicates", "check_top_card",
          "check_top_duplicated"}

\* C1: score raises, and returns nothing, exactly when the input violates a
\* validation condition (unknown hand card, fewer than 4 cards, duplicate
\* hand card, unknown top-of-deck card, top-of-deck card in the hand); when
\* exactly one condition is violated the message names it; a call that
\* is still validating can always take its next check.
C1_RaisesIffInvalid ==
  /\ pc = "raised" =>
       /\ Violations # {}
       /\ result = NoResult
       /\ Cardinality(Violations) = 1 =>
            /\ Violations = {NamedBy(error)}
            /\ \A v \in Violations : ReasonOf(NamedBy(error)) = ReasonOf(v)
  /\ pc = "done" => Violations = {} /\ error = "" /\ result # NoResult
  /\ Violations # {} => (Validating \/ pc = "raised")
  /\ Validating =>
       \/ ENABLED CheckCards \/ ENABLED CheckSize \/ ENABLED CheckDuplicates
       \/ ENABLED CheckTopCard \/ ENABLED CheckTopDuplicated

\* C1 witness: an unknown top-of-deck card, the only violation, was raised
C1_Witness ==
  /\ pc = "raised"
  /\ Violations = {"top_unknown"}
  /\ error = "Invalid top-of-deck card provided: Card is invalid"

ScoringStarted ==
  \/ pc \in {"score_combos", "return", "done"}
  \/ min_card_combos # << >>
  \/ the_hand # << >>
  \/ min_card_combos_plus_scores # << >>
  \/ result # NoResult

\* C2: nothing is enumerated or scored while the checks run; once a
\* combination has been enumerated or scored, every check has passed on a
\* valid input; a call that raised enumerated nothing, scored nothing and
\* returned nothing.
C2_ValidationBeforeScoring ==
  /\ Validating => ~ScoringStarted
  /\ ScoringStarted => Violations = {} /\ error = ""
  /\ pc = "raised" => ~ScoringStarted
  /\ Violations # {} => ~ScoringStarted /\ pc # "combinations"

\* C2 witness: the last check failed, and nothing had been enumerated
C2_Witness ==
  /\ pc = "raised"
  /\ TopInHand
  /\ ~HandHasUnknownCard /\ ~HandTooSmall /\ ~HandHasDuplicate
  /\ min_card_combos = << >>
  /\ min_card_combos_plus_scores = << >>

\* C(n, 4)
Choose4(n) == (n * (n - 1) * (n - 2) * (n - 3)) \div 24

FourCardSubsets(S) == {T \in SUBSET S : Cardinality(T) = 4}

\* C3: the returned list has one entry for each of the C(n,4) 4-card
\* combinations of the hand, so at least one, and the hand itself when n = 4;
\* each sub-hand is 4 distinct cards of the hand without the top-of-deck
\* card; the top-of-deck card is returned as supplied.
C3_OneEntryPerCombination ==
  pc = "done" =>
    LET scored == result[1]
        n == Len(the_cards)
    IN  /\ Len(scored) >= 1
        /\ Len(scored) = Choose4(n)
        /\ {ToSet(scored[i][2]) : i \in 1..Len(scored)} = FourCardSubsets(ToSet(the_cards))
        /\ \A i, j \in 1..Len(scored) :
             i # j => ToSet(scored[i][2]) # ToSet(scored[j][2])
        /\ \A i \in 1..Len(scored) :
             /\ Len(scored[i][2]) = 4
             /\ Cardinality(ToSet(scored[i][2])) = 4
             /\ ToSet(scored[i][2]) \subseteq ToSet(the_cards)
             /\ the_top_of_deck_card \notin ToSet(scored[i][2])
        /\ n = 4 => Len(scored) = 1 /\ scored[1][2] = the_cards
        /\ result[2] = the_top_of_deck_card

\* C3 witness: a 5-card hand with a top-of-deck card returned 5 entries
C3_Witness ==
  /\ pc = "done"
  /\ Len(the_cards) = 5
  /\ the_top_of_deck_card # None
  /\ Len(result[1]) = 5

\* C4: the returned list is in ascending order of score
C4_SortedByScore ==
  pc = "done" =>
    \A i, j \in 1..Len(result[1]) : i < j => result[1][i][1] <= result[1][j][1]

\* C4 witness: a list was returned whose combinations, in the order they
\* were enumerated, were not in ascending order of score
C4_Witness ==
  /\ pc = "done"
  /\ LET combos == combinations(the_cards, 4)
     IN  \E i, j \in 1..Len(combos) :
           /\ i < j
           /\ score_min_card_combo(combos[i], the_top_of_deck_card)
                > score_min_card_combo(combos[j], the_top_of_deck_card)

\* ========================================================================
\* Properties of score_min_card_combo() and the rules, checked under
\* SpecCombo
\* ========================================================================

\* The candidate set: the sub-hand, with the top-of-deck card when supplied
Candidate ==
  IF the_top_of_deck_card = None THEN the_hand
  ELSE the_hand \o <<the_top_of_deck_card>>

RankAt(i) == Candidate[i][1]
SuitAt(i) == Candidate[i][2]
Positions == 1..Len(Candidate)
Ranks(P) == {RankAt(i) : i \in P}

Hand29 == <<<<5, "d">>, <<5, "h">>, <<5, "s">>, <<11, "c">>>>
Hand28 == <<<<5, "c">>, <<5, "d">>, <<5, "h">>, <<5, "s">>>>

\* C5: the score of a sub-hand is the sum of its pairs, runs, fifteens and
\* flush scores, plus the his-nibs score only when a top-of-deck card is
\* supplied, with no cap: 5d 5h 5s Jc with 5c scores 12 + 16 + 1 = 29, and
\* the four 5s with Jc score 28.
C5_ScoreIsSumOfRules ==
  pc = "combo_done" =>
    /\ combo_score =
         rule_scores.pairs + rule_scores.sequences + rule_scores.special_totals
           + rule_scores.flush
           + (IF the_top_of_deck_card # None THEN score_his_nibs(Candidate) ELSE 0)
    /\ (the_hand = Hand29 /\ the_top_of_deck_card = <<5, "c">>) =>
         /\ rule_scores.pairs = 12
         /\ rule_scores.special_totals = 16
         /\ rule_scores.his_nibs = 1
         /\ combo_score = 29
    /\ (the_hand = Hand28 /\ the_top_of_deck_card = <<11, "c">>) => combo_score = 28

\* C5 witness: the 29 hand was scored
C5_Witness ==
  /\ pc = "combo_done"
  /\ the_hand = Hand29
  /\ the_top_of_deck_card = <<5, "c">>
  /\ combo_score = 29

\* The 2-card subsets of the candidate set with equal ranks
EqualRankPairs ==
  {P \in SUBSET Positions : Cardinality(P) = 2 /\ Cardinality(Ranks(P)) = 1}

\* C(k, 2)
Choose2(k) == (k * (k - 1)) \div 2

RECURSIVE PairsOfRanksUpTo(_)
PairsOfRanksUpTo(r) ==
  IF r = 0 THEN 0
  ELSE Choose2(Cardinality({i \in Positions : RankAt(i) = r})) + PairsOfRanksUpTo(r - 1)

\* C6: the pairs score is 2 for every 2-card subset of the candidate set
\* with equal ranks, that is 2 * C(k,2) for a rank that occurs k times; the
\* top-of-deck card counts like a hand card.
C6_PairsScore ==
  pc = "combo_done" =>
    /\ rule_scores.pairs = 2 * Cardinality(EqualRankPairs)
    /\ rule_scores.pairs = 2 * PairsOfRanksUpTo(13)
    /\ \A r \in Ranks(Positions) :
         LET k == Cardinality({i \in Positions : RankAt(i) = r})
         IN  Cardinality(Ranks(Positions) \ {r}) = Len(Candidate) - k =>
               rule_scores.pairs = (CASE k = 1 -> 0 [] k = 2 -> 2 [] k = 3 -> 6
                                      [] k = 4 -> 12)

\* C6 witness: four of a kind, the top-of-deck card being one of the four
C6_Witness ==
  /\ pc = "combo_done"
  /\ the_top_of_deck_card # None
  /\ Cardinality({i \in Positions : RankAt(i) = the_top_of_deck_card[1]}) = 4
  /\ rule_scores.pairs = 12

\* A run: 3 or more cards whose ranks are consecutive, none repeated
IsRun(P) ==
  /\ Cardinality(P) >= 3
  /\ Cardinality(Ranks(P)) = Cardinality(P)
  /\ \A a, b \in Ranks(P) : a - b < Cardinality(P)

RunScore(P) == IF IsRun(P) THEN Cardinality(P) ELSE 0

RunSubsets == {P \in SUBSET Positions : Cardinality(P) >= 3}

BestRunScore ==
  LET scores == {RunScore(P) : P \in RunSubsets}
  IN  CHOOSE m \in scores : \A x \in scores : x <= m

\* C7: the runs score is the largest run score M of a subset of 3 or more
\* cards of the candidate set, times the number K of such subsets that score
\* M, and 0 when no subset is a run: a double run of 3 scores 6, a double run
\* of 4 scores 8, a triple run of 3 scores 9, a double-double run of 3 scores
\* 12, a run of 5 scores 5.
C7_RunsScore ==
  pc = "combo_done" =>
    /\ LET best == BestRunScore
       IN  rule_scores.sequences =
             best * Cardinality({P \in RunSubsets : RunScore(P) = best})
    /\ (\A P \in RunSubsets : ~IsRun(P)) => rule_scores.sequences = 0
    /\ (the_hand = <<<<9, "c">>, <<10, "c">>, <<11, "c">>, <<11, "h">>>>
          /\ the_top_of_deck_card = <<1, "s">>) => rule_scores.sequences = 6
    /\ (the_hand = <<<<9, "c">>, <<10, "c">>, <<11, "c">>, <<11, "h">>>>
          /\ the_top_of_deck_card = <<12, "c">>) => rule_scores.sequences = 8
    /\ (the_hand = <<<<10, "c">>, <<11, "c">>, <<11, "d">>, <<11, "h">>>>
          /\ the_top_of_deck_card = <<12, "c">>) => rule_scores.sequences = 9
    /\ (the_hand = <<<<10, "c">>, <<10, "h">>, <<11, "c">>, <<11, "h">>>>
          /\ the_top_of_deck_card = <<12, "c">>) => rule_scores.sequences = 12
    /\ (the_hand = <<<<9, "c">>, <<10, "c">>, <<11, "c">>, <<12, "c">>>>
          /\ the_top_of_deck_card = <<13, "c">>) => rule_scores.sequences = 5

\* C7 witness: a double-double run of 3 was scored 12
C7_Witness ==
  /\ pc = "combo_done"
  /\ BestRunScore = 3
  /\ Cardinality({P \in RunSubsets : IsRun(P)}) = 4
  /\ rule_scores.sequences = 12

\* The value of a card in a total: its rank, 10 for 10, Jack, Queen and King
ValueAt(i) == IF RankAt(i) < 10 THEN RankAt(i) ELSE 10

RECURSIVE TotalOf(_)
TotalOf(P) ==
  IF P = {} THEN 0
  ELSE LET i == CHOOSE x \in P : TRUE IN ValueAt(i) + TotalOf(P \ {i})

Fifteens == {P \in SUBSET Positions : P # {} /\ TotalOf(P) = 15}

\* C8: the fifteens score is 2 for every non-empty subset of the candidate
\* set, of any size, whose card values (10 for 10, Jack, Queen, King) sum to
\* 15; overlapping and nested subsets each count.
C8_FifteensScore ==
  pc = "combo_done" => rule_scores.special_totals = 2 * Cardinality(Fifteens)

\* C8 witness: a King is part of a fifteen, a fifteen has 3 or more cards,
\* and two fifteens share a card
C8_Witness ==
  /\ pc = "combo_done"
  /\ \E P \in Fifteens : 13 \in Ranks(P)
  /\ \E P \in Fifteens : Cardinality(P) >= 3
  /\ \E P, Q \in Fifteens : P # Q /\ P \cap Q # {}
  /\ rule_scores.special_totals = 2 * Cardinality(Fifteens)

HandSuits == {the_hand[i][2] : i \in 1..Len(the_hand)}

\* C9: with a top-of-deck card, the flush score is 4 when the four sub-hand
\* cards share a suit that the top-of-deck card does not have, 5 when it has
\* that suit too, and 0 when the four do not share a suit, whatever the suit
\* of the top-of-deck card.
C9_FlushScore ==
  (pc = "combo_done" /\ the_top_of_deck_card # None) =>
    /\ (Cardinality(HandSuits) = 1 /\ the_top_of_deck_card[2] \notin HandSuits) =>
         rule_scores.flush = 4
    /\ (Cardinality(HandSuits) = 1 /\ the_top_of_deck_card[2] \in HandSuits) =>
         rule_scores.flush = 5
    /\ Cardinality(HandSuits) # 1 => rule_scores.flush = 0

\* C9 witness: four clubs with a top-of-deck card of another suit scored 4
C9_Witness ==
  /\ pc = "combo_done"
  /\ HandSuits = {"c"}
  /\ the_top_of_deck_card # None
  /\ the_top_of_deck_card[2] # "c"
  /\ rule_scores.flush = 4

HandJacksOfSuit(suit) ==
  {i \in 1..Len(the_hand) : the_hand[i][1] = 11 /\ the_hand[i][2] = suit}

\* C10: the his-nibs score is 1 for every Jack among the four sub-hand cards
\* that has the suit of the top-of-deck card, and 0 without a top-of-deck
\* card; the top-of-deck card itself never counts.
C10_HisNibsScore ==
  pc = "combo_done" =>
    /\ the_top_of_deck_card = None => rule_scores.his_nibs = 0
    /\ the_top_of_deck_card # None =>
         rule_scores.his_nibs = Cardinality(HandJacksOfSuit(the_top_of_deck_card[2]))
    /\ (the_top_of_deck_card # None /\ the_top_of_deck_card[1] = 11) =>
         rule_scores.his_nibs = 0

\* C10 witness: the top-of-deck card is a Jack, the hand holds another Jack,
\* and no point was scored
C10_Witness ==
  /\ pc = "combo_done"
  /\ the_top_of_deck_card # None
  /\ the_top_of_deck_card[1] = 11
  /\ \E i \in 1..Len(the_hand) : the_hand[i][1] = 11
  /\ rule_scores.his_nibs = 0

\* ========================================================================
\* Further properties of score(), checked under Spec
\* ========================================================================

\* The cards of S in ascending order: one fixed order of a hand's cards
RECURSIVE AscendingOrder(_)
AscendingOrder(S) ==
  IF S = {} THEN << >>
  ELSE LET least == CHOOSE c \in S : \A d \in S \ {c} : CardLess(c, d)
       IN  <<least>> \o AscendingOrder(S \ {least})

\* The multiset of (score, sub-hand-as-set) pairs of a list of entries: how
\* often each pair occurs
PairsBag(entries) ==
  LET pair(i) == <<entries[i][1], ToSet(entries[i][2])>>
  IN  [p \in {pair(i) : i \in 1..Len(entries)} |->
         Cardinality({i \in 1..Len(entries) : pair(i) = p})]

\* The entries score() builds for a hand, before they are sorted
EntriesOf(cards, top_of_deck_card) ==
  LET combos == combinations(cards, MIN_HAND_SIZE)
  IN  [i \in 1..Len(combos) |->
         <<score_min_card_combo(combos[i], top_of_deck_card), combos[i]>>]

\* C11: the multiset of (score, sub-hand-as-set) pairs score returns for a
\* hand is the one it builds for the same cards in ascending order, so every
\* two orders of a hand (each of them is a call of its own) return the same
\* multiset; and the score of each returned sub-hand is the score of its four
\* cards in ascending order, with or without a top-of-deck card.
C11_OrderOfHandIrrelevant ==
  pc = "done" =>
    /\ PairsBag(result[1])
         = PairsBag(EntriesOf(AscendingOrder(ToSet(the_cards)), the_top_of_deck_card))
    /\ \A i \in 1..Len(result[1]) :
         result[1][i][1]
           = score_min_card_combo(AscendingOrder(ToSet(result[1][i][2])),
                                  the_top_of_deck_card)

\* C11 witness: a 5-card hand given in descending order, with a top-of-deck
\* card, returned a sub-hand that scores points
C11_Witness ==
  /\ pc = "done"
  /\ Len(the_cards) = 5
  /\ the_top_of_deck_card # None
  /\ \A i \in 1..4 : CardLess(the_cards[i + 1], the_cards[i])
  /\ \E i \in 1..Len(result[1]) :
       /\ result[1][i][1] > 0
       /\ result[1][i][2] # AscendingOrder(ToSet(result[1][i][2]))

\* The order in which score() is said to check the conditions
CheckOrder ==
  <<"hand_unknown", "hand_too_small", "hand_duplicate", "top_unknown", "top_in_hand">>

\* The first condition, in that order, that the input violates
FirstViolation ==
  LET first == CHOOSE i \in 1..Len(CheckOrder) :
                 /\ CheckOrder[i] \in Violations
                 /\ \A j \in 1..(i - 1) : CheckOrder[j] \notin Violations
  IN  CheckOrder[first]

\* C14: when score raises, the message names the first violated condition in
\* the order unknown hand card, fewer than 4 cards, duplicate hand card,
\* unknown top-of-deck card, top-of-deck card in the hand; so a violation of
\* the hand is reported before any violation of the top-of-deck card, and a
\* short hand with an unknown card is reported as invalid cards.
C14_FirstFailingCheckReported ==
  pc = "raised" =>
    /\ NamedBy(error) = FirstViolation
    /\ (HandHasUnknownCard \/ HandTooSmall \/ HandHasDuplicate) =>
         NamedBy(error) \in {"hand_unknown", "hand_too_small", "hand_duplicate"}
    /\ (HandHasUnknownCard /\ HandTooSmall) =>
         error = "Invalid hand provided: Contains cards that are invalid"

\* C14 witness: a 3-card hand with an unknown card and a card held twice,
\* passed with an unknown top-of-deck card, was reported as invalid cards
C14_Witness ==
  /\ pc = "raised"
  /\ Len(the_cards) = 3
  /\ {"hand_unknown", "hand_too_small", "hand_duplicate", "top_unknown"} \subseteq Violations
  /\ error = "Invalid hand provided: Contains cards that are invalid"

\* The suits in ascending order
SuitsAscending == <<"c", "d", "h", "s">>

SuitPlace(suit) == CHOOSE k \in 1..Len(SuitsAscending) : SuitsAscending[k] = suit

\* Card c comes before card d: by rank, then by suit
CardBefore(c, d) ==
  \/ c[1] < d[1]
  \/ c[1] = d[1] /\ SuitPlace(c[2]) < SuitPlace(d[2])

\* Sub-hand g comes before sub-hand h: at the first position where they
\* differ, the card of g comes before the card of h
SubHandBefore(g, h) ==
  \E k \in 1..MIN_HAND_SIZE :
    /\ \A m \in 1..(k - 1) : g[m] = h[m]
    /\ CardBefore(g[k], h[k])

\* C16: the returned list is in strictly ascending lexicographic order of
\* the whole (score, sub-hand) pair: a lower score first, and with equal
\* scores the sub-hand that comes first card by card, rank then suit; so the
\* place of every entry is determined.
C16_SortedByScoreThenSubHand ==
  pc = "done" =>
    \A i, j \in 1..Len(result[1]) :
      i < j =>
        \/ result[1][i][1] < result[1][j][1]
        \/ /\ result[1][i][1] = result[1][j][1]
           /\ SubHandBefore(result[1][i][2], result[1][j][2])

\* C16 witness: a list was returned in which two sub-hands have the same
\* score, and the one enumerated first is the one that comes second
C16_Witness ==
  /\ pc = "done"
  /\ LET entries == EntriesOf(the_cards, the_top_of_deck_card)
     IN  \E i, j \in 1..Len(entries) :
           /\ i < j
           /\ entries[i][1] = entries[j][1]
           /\ SubHandBefore(entries[j][2], entries[i][2])

\* ========================================================================
\* Further properties of score_min_card_combo(), checked under SpecCombo
\* ========================================================================

\* C12: without a top-of-deck card the flush rule is applied to the four
\* cards of the sub-hand: the flush score is 4 when the four cards share one
\* suit and 0 when they do not.  (score_flush always takes the last card of
\* its argument as the top-of-deck card, so without one it finds three other
\* cards, fewer than MIN_FLUSH_SIZE, and scores 0.)
C12_FlushWithoutTopOfDeck ==
  (pc = "combo_done" /\ the_top_of_deck_card = None) =>
    /\ Cardinality(HandSuits) = 1 =>
         /\ rule_scores.flush = 4
         /\ combo_score = 4 + rule_scores.sequences + rule_scores.pairs
                            + rule_scores.special_totals
    /\ Cardinality(HandSuits) # 1 => rule_scores.flush = 0

\* ========================================================================
\* Properties of score_sequence(), checked under SpecSequence
\* ========================================================================

\* How many of the cards have rank r
CountOfRank(r) == Cardinality({i \in 1..Len(the_cards) : the_cards[i][1] = r})

\* The ranks of the cards are some lo, lo + 1, ..., each of them once
ConsecutiveRanks ==
  \E lo \in CARD_NUMBERS :
    \A r \in CARD_NUMBERS :
      CountOfRank(r) = IF r >= lo /\ r < lo + Len(the_cards) THEN 1 ELSE 0

\* The cards in reverse order, every one of them as a club
ReversedAsClubs ==
  [i \in 1..Len(the_cards) |-> <<the_cards[Len(the_cards) + 1 - i][1], "c">>]

\* C13: score_sequence returns the number of cards when there are at least
\* 3 of them and their ranks are consecutive with none repeated, and 0 in
\* every other case (fewer than 3 cards, a gap, a repeated rank); the cards
\* in another order and in other suits score the same.
C13_ScoreSequence ==
  pc = "sequence_done" =>
    /\ rule_scores.sequences =
         IF Len(the_cards) >= 3 /\ ConsecutiveRanks THEN Len(the_cards) ELSE 0
    /\ Len(the_cards) < 3 => rule_scores.sequences = 0
    /\ (\E r \in CARD_NUMBERS : CountOfRank(r) > 1) => rule_scores.sequences = 0
    /\ rule_scores.sequences = score_sequence(ReversedAsClubs)

\* C13 witness: four cards of more than one suit, not given in ascending
\* order of rank, scored 4 as a run
C13_Witness ==
  /\ pc = "sequence_done"
  /\ Len(the_cards) = 4
  /\ the_cards[1][1] > the_cards[2][1]
  /\ the_cards[1][2] # the_cards[2][2]
  /\ rule_scores.sequences = 4

\* C15: a sub-hand scored with a top-of-deck card scores at least what the
\* same sub-hand scores with none, and so does its runs score (the runs of
\* the longest length, which may be longer with the top-of-deck card, are
\* the ones that score).
C15_TopOfDeckNeverLowersScore ==
  (pc = "combo_done" /\ the_top_of_deck_card # None) =>
    LET without == RuleScores(the_hand, None)
    IN  /\ combo_score >= ComboScore(without)
        /\ rule_scores.sequences >= without.sequences

\* C15 witness: a sub-hand with two runs of 3 (6 points) scored two runs of
\* 4 (8 points) with its top-of-deck card, and more in total
C15_Witness ==
  /\ pc = "combo_done"
  /\ the_top_of_deck_card # None
  /\ score_sequences(the_hand) = 6
  /\ rule_scores.sequences = 8
  /\ combo_score > score_min_card_combo(the_hand, None)

====
